---- MODULE Spec2Model ----
(***************************************************************************)
(* Model of the ESP32 Bluetooth presence scanner (src/src/esp32_scanner.cpp *)
(* and its earlier copy src/unnamed/part_000, which differs only in the     *)
(* name of the known-device flag).                                          *)
(*                                                                          *)
(* loop() is split at the points where the bus interrupt requestEvent()     *)
(* can be served: the blocking scan (one step per discovery callback), the  *)
(* counting for-loop (one step per iteration), classification, the LED      *)
(* indicator, command encoding, the reset of the counters, and the release  *)
(* of the scan results at the end of loop().                                *)
(***************************************************************************)
EXTENDS Integers, Sequences, FiniteSets

VARIABLES
    knownBLEAddresses,        \* String knownBLEAddresses[]
    RSSI_THRESHOLD,           \* int RSSI_THRESHOLD
    RSSI_THRESHOLD_FOOTSTEP,  \* int RSSI_THRESHOLD_FOOTSTEP
    RSSI_TH_COUNT,            \* int RSSI_TH_COUNT
    RSSI_TH_COUNT_FOOTSTEP,   \* int RSSI_TH_COUNT_FOOTSTEP
    RSSI_TH_FLAG,             \* bool RSSI_TH_FLAG
    RSSI_TH_FOOTSTEP_FLAG,    \* bool RSSI_TH_FOOTSTEP_FLAG
    DEVICE_PRESENCE,          \* bool DEVICE_PRESENCE
    DEVICE_SMALL_NUM,         \* bool DEVICE_SMALL_NUM
    DEVICE_LARGE_NUM,         \* bool DEVICE_LARGE_NUM
    known_device_found,       \* bool known_device_found (device_found in part_000)
    message,                  \* char message
    foundDevices,             \* BLEScanResults of the running loop(), in discovery order
    i,                        \* index of the counting for-loop
    pc,                       \* position of loop()
    wire,                     \* byte last written to the bus by requestEvent()
    greenPulses,              \* LED_GREEN pulses fired in this pass of loop()
    redPulses,                \* LED_RED pulses fired in this pass of loop()
    priorCategory             \* history: category of the latest cycle that
                              \* assigned DEVICE_SMALL_NUM and DEVICE_LARGE_NUM

vars == <<knownBLEAddresses, RSSI_THRESHOLD, RSSI_THRESHOLD_FOOTSTEP,
          RSSI_TH_COUNT, RSSI_TH_COUNT_FOOTSTEP, RSSI_TH_FLAG,
          RSSI_TH_FOOTSTEP_FLAG, DEVICE_PRESENCE, DEVICE_SMALL_NUM,
          DEVICE_LARGE_NUM, known_device_found, message, foundDevices, i, pc,
          wire, greenPulses, redPulses, priorCategory>>

config == <<knownBLEAddresses, RSSI_THRESHOLD, RSSI_THRESHOLD_FOOTSTEP>>

counters == <<RSSI_TH_COUNT, RSSI_TH_COUNT_FOOTSTEP, RSSI_TH_FLAG,
              RSSI_TH_FOOTSTEP_FLAG>>

category == <<DEVICE_PRESENCE, DEVICE_SMALL_NUM, DEVICE_LARGE_NUM>>

leds == <<greenPulses, redPulses>>

----------------------------------------------------------------------------
(* Program constants *)

DefaultKnownBLEAddresses ==
    << "aa:bc:cc:dd:ee:ee", "54:2c:7b:87:71:a2", "72:09:b9:28:37:6c",
       "6c:9a:00:3a:65:47", "66:f4:d1:6c:fc:b2", "5a:2b:f4:61:71:aa",
       "f2:dc:7e:bd:f1:ab", "49:36:ef:f5:9f:0c", "4f:08:07:83:c3:62",
       "5b:51:f2:1d:66:4d", "53:11:d2:bf:fd:04", "74:be:f6:a4:81:2f",
       "d7:42:99:28:27:63" >>

DefaultRssiThreshold == -80

DefaultRssiThresholdFootstep == -50

SmallMin == 5

SmallMax == 15

Stop == "s"

Footstep == "f"

Vibrate == "r"

Commands == {Stop, Footstep, Vibrate}

NoByte == ""

----------------------------------------------------------------------------
(* Bounds on the Scanner's output *)

\* most devices one scan reports
MaxDevices == 16

\* a scan reports a crowd of identical in-range visitors first, then at most
\* this many arbitrary observations
MaxTail == 2

KnownAddr == "54:2c:7b:87:71:a2"

UnknownAddr == "11:22:33:44:55:66"

Addrs == {KnownAddr, UnknownAddr}

\* signal strengths on both sides of each default threshold
Rssis == {-80, -79, -50, -49}

Observations == [addr : Addrs, rssi : Rssis]

CrowdObs == [addr |-> UnknownAddr, rssi |-> -79]

RECURSIVE CrowdPrefixLen(_)
CrowdPrefixLen(s) ==
    IF s = <<>> \/ Head(s) # CrowdObs THEN 0 ELSE 1 + CrowdPrefixLen(Tail(s))

TailLen(s) == Len(s) - CrowdPrefixLen(s)

----------------------------------------------------------------------------
(* MyAdvertisedDeviceCallbacks::onResult: the value the for-loop over the   *)
(* registry leaves in known_device_found, starting at registry index k with *)
(* the flag holding `flag`.                                                  *)

RECURSIVE OnResultFrom(_, _, _, _)
OnResultFrom(registry, addr, k, flag) ==
    IF k > Len(registry) THEN flag
    ELSE IF addr = registry[k] THEN TRUE
    ELSE OnResultFrom(registry, addr, k + 1, FALSE)

\* variant: a mismatch does not clear the flag
OnResult_Sticky(registry, addr, flag) ==
    flag \/ (\E k \in 1..Len(registry) : addr = registry[k])

OnResult(registry, addr, flag) == OnResultFrom(registry, addr, 1, flag)

\* membership of an identifier in the registry
InRegistry(registry, addr) == \E k \in 1..Len(registry) : registry[k] = addr

----------------------------------------------------------------------------
(* State after the global initialisers and setup() *)

InitState ==
    /\ RSSI_TH_COUNT = 0
    /\ RSSI_TH_COUNT_FOOTSTEP = 0
    /\ RSSI_TH_FLAG = FALSE
    /\ RSSI_TH_FOOTSTEP_FLAG = FALSE
    /\ DEVICE_PRESENCE = FALSE
    /\ DEVICE_SMALL_NUM = FALSE
    /\ DEVICE_LARGE_NUM = FALSE
    /\ known_device_found = FALSE
    /\ message = Stop
    /\ foundDevices = <<>>
    /\ i = 0
    /\ pc = "scan"
    /\ wire = NoByte
    /\ greenPulses = 0
    /\ redPulses = 0
    /\ priorCategory = "unset"

\* threshold values a build may be configured with
ThresholdChoices == {DefaultRssiThreshold, DefaultRssiThresholdFootstep}

(* every assignment of the two thresholds, the close one stricter or not *)
InitThresholds ==
    /\ knownBLEAddresses = DefaultKnownBLEAddresses
    /\ RSSI_THRESHOLD \in ThresholdChoices
    /\ RSSI_THRESHOLD_FOOTSTEP \in ThresholdChoices
    /\ InitState

\* registries a build may be configured with: none (the addresses removed at
\* installation), the reference one, and one whose last entry is KnownAddr
RegistryChoices ==
    { <<>>, DefaultKnownBLEAddresses, <<"aa:bc:cc:dd:ee:ee", KnownAddr>> }

InitRegistry ==
    /\ knownBLEAddresses \in RegistryChoices
    /\ RSSI_THRESHOLD = DefaultRssiThreshold
    /\ RSSI_THRESHOLD_FOOTSTEP = DefaultRssiThresholdFootstep
    /\ InitState

Init ==
    /\ knownBLEAddresses = DefaultKnownBLEAddresses
    /\ RSSI_THRESHOLD = DefaultRssiThreshold
    /\ RSSI_THRESHOLD_FOOTSTEP = DefaultRssiThresholdFootstep
    /\ InitState

----------------------------------------------------------------------------
(* pBLEScan->start(scanTime, false): the scanner reports one more device,   *)
(* stores it in the results and calls onResult for it.                      *)

Discover(o) ==
    /\ pc = "scan"
    /\ Len(foundDevices) < MaxDevices
    /\ TailLen(foundDevices) < MaxTail
    /\ foundDevices' = Append(foundDevices, o)
    /\ known_device_found' = OnResult(knownBLEAddresses, o.addr, known_device_found)
    /\ UNCHANGED <<config, priorCategory, counters, category, message, i, pc,
                   wire, leds>>

(* pBLEScan->start returns; the counting loop starts at i = 0 *)
ScanDone ==
    /\ pc = "scan"
    /\ pc' = "count"
    /\ i' = 0
    /\ UNCHANGED <<config, priorCategory, counters, category,
                   known_device_found, message,
                   foundDevices, wire, leds>>

----------------------------------------------------------------------------
(* One iteration of the device counting for-loop of loop() *)

\* variant: the registry is searched for the observation being counted
CountStep_PerObservation ==
    /\ pc = "count"
    /\ i < Len(foundDevices)
    /\ LET rssi == foundDevices[i + 1].rssi
           known == \E k \in 1..Len(knownBLEAddresses) :
                        knownBLEAddresses[k] = foundDevices[i + 1].addr
       IN
         IF rssi > RSSI_THRESHOLD /\ known = FALSE
         THEN /\ RSSI_TH_COUNT' = RSSI_TH_COUNT + 1
              /\ RSSI_TH_FLAG' = TRUE
              /\ IF rssi > RSSI_THRESHOLD_FOOTSTEP
                 THEN /\ RSSI_TH_COUNT_FOOTSTEP' = RSSI_TH_COUNT_FOOTSTEP + 1
                      /\ RSSI_TH_FOOTSTEP_FLAG' = TRUE
                 ELSE UNCHANGED <<RSSI_TH_COUNT_FOOTSTEP, RSSI_TH_FOOTSTEP_FLAG>>
         ELSE UNCHANGED counters
    /\ i' = i + 1
    /\ UNCHANGED <<config, priorCategory, category, known_device_found, message,
                   foundDevices, pc, wire, leds>>

\* variant: the close-range test sits beside the general test, not inside it
CountStep_CloseUnnested ==
    /\ pc = "count"
    /\ i < Len(foundDevices)
    /\ LET rssi == foundDevices[i + 1].rssi IN
         /\ IF rssi > RSSI_THRESHOLD /\ known_device_found = FALSE
            THEN /\ RSSI_TH_COUNT' = RSSI_TH_COUNT + 1
                 /\ RSSI_TH_FLAG' = TRUE
            ELSE UNCHANGED <<RSSI_TH_COUNT, RSSI_TH_FLAG>>
         /\ IF rssi > RSSI_THRESHOLD_FOOTSTEP
            THEN /\ RSSI_TH_COUNT_FOOTSTEP' = RSSI_TH_COUNT_FOOTSTEP + 1
                 /\ RSSI_TH_FOOTSTEP_FLAG' = TRUE
            ELSE UNCHANGED <<RSSI_TH_COUNT_FOOTSTEP, RSSI_TH_FOOTSTEP_FLAG>>
    /\ i' = i + 1
    /\ UNCHANGED <<config, priorCategory, category, known_device_found, message,
                   foundDevices,
                   pc, wire, leds>>

CountStep ==
    /\ pc = "count"
    /\ i < Len(foundDevices)
    /\ LET rssi == foundDevices[i + 1].rssi IN
         IF rssi > RSSI_THRESHOLD /\ known_device_found = FALSE
         THEN /\ RSSI_TH_COUNT' = RSSI_TH_COUNT + 1
              /\ RSSI_TH_FLAG' = TRUE
              /\ IF rssi > RSSI_THRESHOLD_FOOTSTEP
                 THEN /\ RSSI_TH_COUNT_FOOTSTEP' = RSSI_TH_COUNT_FOOTSTEP + 1
                      /\ RSSI_TH_FOOTSTEP_FLAG' = TRUE
                 ELSE UNCHANGED <<RSSI_TH_COUNT_FOOTSTEP, RSSI_TH_FOOTSTEP_FLAG>>
         ELSE UNCHANGED counters
    /\ i' = i + 1
    /\ UNCHANGED <<config, priorCategory, category, known_device_found, message,
                   foundDevices,
                   pc, wire, leds>>

(* The for-loop ends; the small / large classification of loop() *)

\* history only: the category of the specification (4.3) for a final count,
\* kept from the earlier cycles when the count is in the unclassified range
CategoryAfter(count) ==
    IF count = 0 THEN "None"
    ELSE IF count >= SmallMin /\ count <= SmallMax THEN "Small"
    ELSE IF count > SmallMax THEN "Large"
    ELSE priorCategory

\* the classification of loop() with its three tests and its no-audience
\* branch as parameters
ClassifyWith(present, small, large, clearPresence) ==
    /\ pc = "count"
    /\ ~(i < Len(foundDevices))
    /\ IF present
       THEN /\ DEVICE_PRESENCE' = TRUE
            /\ IF small
               THEN /\ DEVICE_SMALL_NUM' = TRUE
                    /\ DEVICE_LARGE_NUM' = FALSE
               ELSE IF large
                    THEN /\ DEVICE_LARGE_NUM' = TRUE
                         /\ DEVICE_SMALL_NUM' = FALSE
                    ELSE UNCHANGED <<DEVICE_SMALL_NUM, DEVICE_LARGE_NUM>>
       ELSE /\ DEVICE_PRESENCE' = (IF clearPresence THEN FALSE ELSE DEVICE_PRESENCE)
            /\ DEVICE_SMALL_NUM' = FALSE
            /\ DEVICE_LARGE_NUM' = FALSE
    /\ pc' = "notify"
    /\ i' = 0
    /\ priorCategory' = CategoryAfter(RSSI_TH_COUNT)
    /\ UNCHANGED <<config, counters, known_device_found, message, foundDevices,
                   wire, leds>>

\* the classification with the assignments of its small branch, of its
\* branch for a count of 1 to 4 and its exit test as parameters
ClassifyBranches(exit, largeInSmall, smallInSparse, largeInSparse) ==
    /\ pc = "count"
    /\ exit
    /\ IF RSSI_TH_COUNT > 0
       THEN /\ DEVICE_PRESENCE' = TRUE
            /\ IF RSSI_TH_COUNT >= SmallMin /\ RSSI_TH_COUNT <= SmallMax
               THEN /\ DEVICE_SMALL_NUM' = TRUE
                    /\ DEVICE_LARGE_NUM' = largeInSmall
               ELSE IF RSSI_TH_COUNT > SmallMax
                    THEN /\ DEVICE_LARGE_NUM' = TRUE
                         /\ DEVICE_SMALL_NUM' = FALSE
                    ELSE /\ DEVICE_SMALL_NUM' = smallInSparse
                         /\ DEVICE_LARGE_NUM' = largeInSparse
       ELSE /\ DEVICE_PRESENCE' = FALSE
            /\ DEVICE_SMALL_NUM' = FALSE
            /\ DEVICE_LARGE_NUM' = FALSE
    /\ pc' = "notify"
    /\ i' = 0
    /\ priorCategory' = CategoryAfter(RSSI_TH_COUNT)
    /\ UNCHANGED <<config, counters, known_device_found, message, foundDevices,
                   wire, leds>>

\* variant: the small branch leaves DEVICE_LARGE_NUM as it was
Classify_LargeNotCleared ==
    ClassifyBranches(~(i < Len(foundDevices)), DEVICE_LARGE_NUM,
                     DEVICE_SMALL_NUM, DEVICE_LARGE_NUM)

\* variant: a count of 1 to 4 clears both category flags
Classify_SparseClearsCategory ==
    ClassifyBranches(~(i < Len(foundDevices)), FALSE, FALSE, FALSE)

\* variant: the classification waits for an index beyond the last device
Classify_ExitsLate ==
    ClassifyBranches(i > Len(foundDevices), FALSE,
                     DEVICE_SMALL_NUM, DEVICE_LARGE_NUM)

\* variant: presence needs more than one device
Classify_PresenceOffByOne ==
    ClassifyWith(RSSI_TH_COUNT > 1,
                 RSSI_TH_COUNT >= SmallMin /\ RSSI_TH_COUNT <= SmallMax,
                 RSSI_TH_COUNT > SmallMax, TRUE)

\* variant: the small range excludes its two end points
Classify_SmallExclusive ==
    ClassifyWith(RSSI_TH_COUNT > 0,
                 RSSI_TH_COUNT > SmallMin /\ RSSI_TH_COUNT < SmallMax,
                 RSSI_TH_COUNT > SmallMax, TRUE)

\* variant: the large range starts one device late
Classify_LargeOffByOne ==
    ClassifyWith(RSSI_TH_COUNT > 0,
                 RSSI_TH_COUNT >= SmallMin /\ RSSI_TH_COUNT <= SmallMax + 1,
                 RSSI_TH_COUNT > SmallMax + 1, TRUE)

\* variant: the no-audience branch forgets DEVICE_PRESENCE
Classify_StalePresence ==
    ClassifyWith(RSSI_TH_COUNT > 0,
                 RSSI_TH_COUNT >= SmallMin /\ RSSI_TH_COUNT <= SmallMax,
                 RSSI_TH_COUNT > SmallMax, FALSE)

Classify ==
    /\ pc = "count"
    /\ ~(i < Len(foundDevices))
    /\ IF RSSI_TH_COUNT > 0
       THEN /\ DEVICE_PRESENCE' = TRUE
            /\ IF RSSI_TH_COUNT >= SmallMin /\ RSSI_TH_COUNT <= SmallMax
               THEN /\ DEVICE_SMALL_NUM' = TRUE
                    /\ DEVICE_LARGE_NUM' = FALSE
               ELSE IF RSSI_TH_COUNT > SmallMax
                    THEN /\ DEVICE_LARGE_NUM' = TRUE
                         /\ DEVICE_SMALL_NUM' = FALSE
                    ELSE UNCHANGED <<DEVICE_SMALL_NUM, DEVICE_LARGE_NUM>>
       ELSE /\ DEVICE_PRESENCE' = FALSE
            /\ DEVICE_SMALL_NUM' = FALSE
            /\ DEVICE_LARGE_NUM' = FALSE
    /\ pc' = "notify"
    /\ i' = 0
    /\ priorCategory' = CategoryAfter(RSSI_TH_COUNT)
    /\ UNCHANGED <<config, counters, known_device_found, message, foundDevices,
                   wire, leds>>

(* ledNotification(): one green pulse per counted device, one red pulse per *)
(* close device, read from the global counters                              *)
(* The pulses fired so far are the indices of its two for-loops; the bus    *)
(* interrupt is served during the delays of a pulse.                        *)

\* one pass of the LED_GREEN loop
LedGreen ==
    /\ pc = "notify"
    /\ greenPulses < RSSI_TH_COUNT
    /\ greenPulses' = greenPulses + 1
    /\ UNCHANGED <<config, priorCategory, counters, category,
                   known_device_found,
                   message, foundDevices, i, pc, wire, redPulses>>

\* one pass of the LED_RED loop, entered when the LED_GREEN loop has ended
LedRed ==
    /\ pc = "notify"
    /\ ~(greenPulses < RSSI_TH_COUNT)
    /\ redPulses < RSSI_TH_COUNT_FOOTSTEP
    /\ redPulses' = redPulses + 1
    /\ UNCHANGED <<config, priorCategory, counters, category,
                   known_device_found,
                   message, foundDevices, i, pc, wire, greenPulses>>

\* variant: the LED_GREEN loop runs once more than the count
LedNotification_ExtraPulse ==
    /\ pc = "notify"
    /\ ~(greenPulses < RSSI_TH_COUNT)
    /\ ~(redPulses < RSSI_TH_COUNT_FOOTSTEP)
    /\ greenPulses' = greenPulses + 1
    /\ pc' = "encode"
    /\ UNCHANGED <<config, priorCategory, counters, category,
                   known_device_found,
                   message, foundDevices, i, wire, redPulses>>

\* both loops have ended; ledNotification() returns to loop()
LedNotification ==
    /\ pc = "notify"
    /\ ~(greenPulses < RSSI_TH_COUNT)
    /\ ~(redPulses < RSSI_TH_COUNT_FOOTSTEP)
    /\ pc' = "encode"
    /\ UNCHANGED <<config, priorCategory, counters, category,
                   known_device_found,
                   message, foundDevices, i, wire, leds>>

(* SET THE COMMAND MESSAGE TO I2C COMM *)

\* variant: the command is set before ledNotification() is called
Encode_BeforeIndicator ==
    /\ pc = "notify"
    /\ greenPulses = 0
    /\ redPulses = 0
    /\ message' = (IF DEVICE_PRESENCE = TRUE
                   THEN (IF DEVICE_SMALL_NUM = TRUE THEN Footstep ELSE Vibrate)
                   ELSE Stop)
    /\ pc' = "reset"
    /\ UNCHANGED <<config, priorCategory, counters, category, known_device_found,
                   foundDevices, i, wire, leds>>

\* variant: the random-vibration command is written in the wrong case
Encode_WrongCase ==
    /\ pc = "encode"
    /\ message' = (IF DEVICE_PRESENCE = TRUE
                   THEN (IF DEVICE_SMALL_NUM = TRUE THEN Footstep ELSE "R")
                   ELSE Stop)
    /\ pc' = "reset"
    /\ UNCHANGED <<config, priorCategory, counters, category,
                   known_device_found, foundDevices,
                   i, wire, leds>>

Encode ==
    /\ pc = "encode"
    /\ message' = (IF DEVICE_PRESENCE = TRUE
                   THEN (IF DEVICE_SMALL_NUM = TRUE THEN Footstep ELSE Vibrate)
                   ELSE Stop)
    /\ pc' = "reset"
    /\ UNCHANGED <<config, priorCategory, counters, category,
                   known_device_found, foundDevices,
                   i, wire, leds>>

(* Reset device counting variables *)

\* variant: the reset also puts the command back to its initial value
Reset_ClearsCommand ==
    /\ pc = "reset"
    /\ RSSI_TH_COUNT' = 0
    /\ RSSI_TH_COUNT_FOOTSTEP' = 0
    /\ RSSI_TH_FLAG' = FALSE
    /\ RSSI_TH_FOOTSTEP_FLAG' = FALSE
    /\ message' = Stop
    /\ pc' = "clear"
    /\ UNCHANGED <<config, priorCategory, category, known_device_found,
                   foundDevices, i, wire, leds>>

\* variant: the general flag is not cleared
Reset_KeepsGeneralFlag ==
    /\ pc = "reset"
    /\ RSSI_TH_COUNT' = 0
    /\ RSSI_TH_COUNT_FOOTSTEP' = 0
    /\ RSSI_TH_FOOTSTEP_FLAG' = FALSE
    /\ pc' = "clear"
    /\ UNCHANGED <<config, priorCategory, category, known_device_found, message,
                   foundDevices, i, wire, leds, RSSI_TH_FLAG>>

\* variant: the close-range flag is not cleared
Reset_KeepsCloseFlag ==
    /\ pc = "reset"
    /\ RSSI_TH_COUNT' = 0
    /\ RSSI_TH_COUNT_FOOTSTEP' = 0
    /\ RSSI_TH_FLAG' = FALSE
    /\ pc' = "clear"
    /\ UNCHANGED <<config, priorCategory, category, known_device_found, message,
                   foundDevices,
                   i, wire, leds, RSSI_TH_FOOTSTEP_FLAG>>

Reset ==
    /\ pc = "reset"
    /\ RSSI_TH_COUNT' = 0
    /\ RSSI_TH_COUNT_FOOTSTEP' = 0
    /\ RSSI_TH_FLAG' = FALSE
    /\ RSSI_TH_FOOTSTEP_FLAG' = FALSE
    /\ pc' = "clear"
    /\ UNCHANGED <<config, priorCategory, category, known_device_found, message,
                   foundDevices,
                   i, wire, leds>>

(* pBLEScan->clearResults(); loop() returns and is entered again *)
ClearResults ==
    /\ pc = "clear"
    /\ foundDevices' = <<>>
    /\ greenPulses' = 0
    /\ redPulses' = 0
    /\ pc' = "scan"
    /\ UNCHANGED <<config, priorCategory, counters, category,
                   known_device_found, message, i,
                   wire>>

(* requestEvent(): the bus master asks for the command; served whenever the *)
(* interrupt arrives                                                        *)
RequestEvent ==
    /\ wire' = message
    /\ UNCHANGED <<config, priorCategory, counters, category,
                   known_device_found, message,
                   foundDevices, i, pc, leds>>

----------------------------------------------------------------------------

Next ==
    \/ \E o \in Observations : Discover(o)
    \/ ScanDone
    \/ CountStep
    \/ Classify
    \/ LedGreen
    \/ LedRed
    \/ LedNotification
    \/ Encode
    \/ Reset
    \/ ClearResults
    \/ RequestEvent

Spec == Init /\ [][Next]_vars

SpecThresholds == InitThresholds /\ [][Next]_vars

SpecRegistry == InitRegistry /\ [][Next]_vars

\* the steps of loop() and of the functions it calls
Loop ==
    \/ ScanDone
    \/ CountStep
    \/ Classify
    \/ LedGreen
    \/ LedRed
    \/ LedNotification
    \/ Encode
    \/ Reset
    \/ ClearResults

\* loop() and the scanner without the bus interrupt: requestEvent() writes
\* only the byte on the bus, which no step of loop() reads
NextLoop ==
    \/ \E o \in Observations : Discover(o)
    \/ Loop

\* the scan returns after its fixed duration and every delay() of the
\* indicator ends, so loop() always takes its next step
SpecLive == Init /\ [][NextLoop]_vars /\ WF_vars(Loop)

----------------------------------------------------------------------------
(* Properties.  After Encode and before Reset (pc = "reset") the counters    *)
(* still hold the final counts of the cycle and message holds the command    *)
(* the cycle published.                                                      *)

Encoded == pc = "reset"

Counted == pc = "count" /\ i = Len(foundDevices)

\* observations of the scan that the specification's counter would count
UnknownAbove(threshold) ==
    {j \in 1..Len(foundDevices) :
        /\ ~InRegistry(knownBLEAddresses, foundDevices[j].addr)
        /\ foundDevices[j].rssi > RSSI_THRESHOLD
        /\ foundDevices[j].rssi > threshold}

\* C1: a cycle whose final generalCount is in 1..4 publishes Vibrate,
\* whatever the earlier cycles were.
C1_SparseIsVibrate ==
    (Encoded /\ RSSI_TH_COUNT \in 1..(SmallMin - 1)) => message = Vibrate

\* C2: a counting step on an observation whose identifier is in the registry
\* changes neither count and neither flag.
C2_KnownNeverCounted ==
    [][(/\ pc = "count"
        /\ i < Len(foundDevices)
        /\ InRegistry(knownBLEAddresses, foundDevices[i + 1].addr))
       => UNCHANGED counters]_vars

\* C3: after the counting phase generalCount is the number of unknown
\* observations above T_general and closeCount the number of those also above
\* T_close.
C3_CountsMatchScan ==
    Counted =>
        /\ RSSI_TH_COUNT = Cardinality(UnknownAbove(RSSI_THRESHOLD))
        /\ RSSI_TH_COUNT_FOOTSTEP = Cardinality(UnknownAbove(RSSI_THRESHOLD_FOOTSTEP))

\* C4: closeCount <= generalCount in every reachable state, for every
\* assignment of the two thresholds.
C4_CloseLeGeneral == RSSI_TH_COUNT_FOOTSTEP <= RSSI_TH_COUNT

\* C4 witness: in the middle of counting, with the close threshold the weaker
\* of the two, a close device has been counted.
C4_Witness ==
    /\ RSSI_THRESHOLD_FOOTSTEP < RSSI_THRESHOLD
    /\ pc = "count"
    /\ 0 < i
    /\ i < Len(foundDevices)
    /\ RSSI_TH_COUNT_FOOTSTEP > 0

\* C5: the command byte is always one of 's', 'f', 'r', and so is every byte
\* requestEvent has put on the bus.
C5_CommandDefined ==
    /\ message \in Commands
    /\ wire # NoByte => wire \in Commands

\* C5 witness: a request was served between Encode and Reset of a cycle that
\* changed the command.
C5_Witness ==
    /\ Encoded
    /\ wire = message
    /\ message = Vibrate
    /\ RSSI_TH_COUNT > SmallMax

\* C6: at the end of Encoding the command is Stop exactly when the cycle's
\* final generalCount is 0.
C6_StopIffZero == Encoded => (message = Stop <=> RSSI_TH_COUNT = 0)

\* C6 witness: a cycle that counted nothing published Stop after an earlier
\* cycle had published Footstep.
C6_Witness ==
    /\ Encoded
    /\ RSSI_TH_COUNT = 0
    /\ message = Stop
    /\ wire = Footstep
    /\ foundDevices # <<>>

\* C7: a cycle whose final generalCount is in 5..15 publishes Footstep,
\* whatever the earlier cycles were.
C7_SmallIsFootstep ==
    (Encoded /\ RSSI_TH_COUNT >= SmallMin /\ RSSI_TH_COUNT <= SmallMax)
        => message = Footstep

\* C7 witness: a cycle with exactly 5 counted devices published Footstep after
\* an earlier cycle had published Vibrate.
C7_Witness ==
    /\ Encoded
    /\ RSSI_TH_COUNT = SmallMin
    /\ message = Footstep
    /\ wire = Vibrate

\* C8: a cycle whose final generalCount is above 15 publishes Vibrate,
\* whatever the earlier cycles were.
C8_LargeIsVibrate == (Encoded /\ RSSI_TH_COUNT > SmallMax) => message = Vibrate

\* C8 witness: a cycle with 16 counted devices published Vibrate after an
\* earlier cycle had published Footstep.
C8_Witness ==
    /\ Encoded
    /\ RSSI_TH_COUNT = SmallMax + 1
    /\ message = Vibrate
    /\ wire = Footstep

\* C9: a cycle whose scan result is empty ends with the command Stop and both
\* counts 0, whatever the earlier cycles left behind.
C9_EmptyScanStops ==
    (pc \in {"reset", "clear"} /\ foundDevices = <<>>)
        => /\ message = Stop
           /\ RSSI_TH_COUNT = 0
           /\ RSSI_TH_COUNT_FOOTSTEP = 0

\* C9 witness: an empty cycle has encoded Stop although an earlier cycle
\* published Footstep and the last callback left the known-device flag set.
C9_Witness ==
    /\ Encoded
    /\ foundDevices = <<>>
    /\ message = Stop
    /\ wire = Footstep
    /\ known_device_found = TRUE

\* C10: whenever loop() is in its scan, the first time included, both counts
\* are 0 and both flags are false.
C10_CycleStartsEmpty ==
    pc = "scan" =>
        /\ RSSI_TH_COUNT = 0
        /\ RSSI_TH_COUNT_FOOTSTEP = 0
        /\ RSSI_TH_FLAG = FALSE
        /\ RSSI_TH_FOOTSTEP_FLAG = FALSE

\* C10 witness: a new cycle is entered after a cycle that counted devices
\* and published Vibrate.
C10_Witness ==
    /\ pc = "scan"
    /\ foundDevices = <<>>
    /\ message = Vibrate
    /\ DEVICE_PRESENCE = TRUE
    /\ RSSI_TH_COUNT = 0
    /\ RSSI_TH_FOOTSTEP_FLAG = FALSE

----------------------------------------------------------------------------
(* Properties of the order of the phases, the indicator and the flags *)

\* the command Encode would publish for the classification of this cycle
CommandOfCategory ==
    IF DEVICE_PRESENCE = TRUE
    THEN (IF DEVICE_SMALL_NUM = TRUE THEN Footstep ELSE Vibrate)
    ELSE Stop

IndicatorRunning == pc = "notify" /\ (greenPulses > 0 \/ redPulses > 0)

\* the order in which loop() goes through its phases
PhaseOrder ==
    { <<"scan", "count">>, <<"count", "notify">>, <<"notify", "encode">>,
      <<"encode", "reset">>, <<"reset", "clear">>, <<"clear", "scan">> }

\* C11: the command byte changes only in the Encoding step; every other step
\* of loop(), the discovery callback, the indicator and the request handler
\* leave it unchanged, and a request returns the byte as it then stands.
C11_CommandWrittenByEncodeOnly ==
    [][/\ (message' # message => (pc = "encode" /\ pc' = "reset"))
       /\ (wire' # wire => (wire' = message /\ message' = message))]_vars

\* C11 witness: during the counting of a later cycle a request has returned
\* the Footstep written by the Encoding of an earlier cycle.
C11_Witness ==
    /\ pc = "count"
    /\ 0 < i
    /\ i < Len(foundDevices)
    /\ message = Footstep
    /\ wire = Footstep
    /\ RSSI_TH_COUNT < SmallMin
    /\ Len(foundDevices) < SmallMin

\* C12: once ledNotification() has returned, and until the reset, the green
\* pulses fired equal the final generalCount of the cycle and the red pulses
\* its final closeCount; no pulse is fired before the counting has ended, and
\* while the indicator runs the pulses stay within the counts.
C12_IndicatorPreResetCounts ==
    /\ pc \in {"encode", "reset"} =>
         (greenPulses = RSSI_TH_COUNT /\ redPulses = RSSI_TH_COUNT_FOOTSTEP)
    /\ pc \in {"scan", "count"} => (greenPulses = 0 /\ redPulses = 0)
    /\ pc = "notify" =>
         /\ greenPulses <= RSSI_TH_COUNT
         /\ redPulses <= RSSI_TH_COUNT_FOOTSTEP
         /\ redPulses > 0 => greenPulses = RSSI_TH_COUNT

\* C12 witness: the indicator has returned in a cycle with several counted
\* devices, one of them close.
C12_Witness ==
    /\ pc = "reset"
    /\ greenPulses = RSSI_TH_COUNT
    /\ redPulses = RSSI_TH_COUNT_FOOTSTEP
    /\ greenPulses >= SmallMin
    /\ redPulses = 1

\* C13 (as stated): while the indicator is running the command already is the
\* one of the current cycle.
C13_CommandBeforeIndicator == IndicatorRunning => message = CommandOfCategory

\* C13 (amended): loop() goes through scan, counting, classification,
\* indicator, encoding, reset, release of the results, in this order; the
\* pulses are fired before the Encoding of the cycle, and the command does not
\* change from the start of the cycle to the end of the indicator.
C13_IndicatorBeforeEncode ==
    [][/\ (pc' # pc => <<pc, pc'>> \in PhaseOrder)
       /\ (leds' # leds => (pc \in {"notify", "clear"} /\ message' = message))
       /\ (pc \in {"scan", "count", "notify"} => message' = message)]_vars

\* C13 witness: a request served while the indicator is running has returned
\* the command of the previous cycle, which is not the one of this cycle.
C13_Witness ==
    /\ IndicatorRunning
    /\ wire = message
    /\ message = Footstep
    /\ CommandOfCategory = Vibrate

\* C14: in every reachable state each flag is true exactly when its count is
\* above 0.
C14_FlagsMatchCounts ==
    /\ RSSI_TH_FLAG = (RSSI_TH_COUNT > 0)
    /\ RSSI_TH_FOOTSTEP_FLAG = (RSSI_TH_COUNT_FOOTSTEP > 0)

\* C14 witness: in the middle of counting the general flag is set and the
\* close flag is not.
C14_Witness ==
    /\ pc = "count"
    /\ i < Len(foundDevices)
    /\ RSSI_TH_FLAG = TRUE
    /\ RSSI_TH_COUNT > 0
    /\ RSSI_TH_FOOTSTEP_FLAG = FALSE
    /\ RSSI_TH_COUNT_FOOTSTEP = 0

----------------------------------------------------------------------------
(* Properties of the known-device verdict, of progress and of the category  *)
(* flags                                                                    *)

LastFound == foundDevices[Len(foundDevices)]

\* observations of the scan above the general threshold, known or not
AllAbove == {j \in 1..Len(foundDevices) : foundDevices[j].rssi > RSSI_THRESHOLD}

\* C15: for every registry, after the callback for a device the known-device
\* flag is true exactly when the identifier of that device is an entry of the
\* registry, whatever the flag was before and wherever the entry is.
C15_VerdictIsMembership ==
    foundDevices # <<>> =>
        known_device_found = InRegistry(knownBLEAddresses, LastFound.addr)

\* C15 witness: with the matching entry last in the registry, the callback for
\* an unknown device has cleared the verdict left by the callback for a known
\* one.
C15_Witness ==
    /\ pc = "scan"
    /\ Len(foundDevices) = 2
    /\ knownBLEAddresses # <<>>
    /\ knownBLEAddresses[Len(knownBLEAddresses)] = foundDevices[1].addr
    /\ ~InRegistry(knownBLEAddresses, LastFound.addr)
    /\ known_device_found = FALSE

\* C16: after counting, generalCount is 0 if the last device the scanner
\* reported is in the registry, and otherwise the number of all observations
\* above T_general, known ones included.
C16_CountUnderLastVerdict ==
    Counted =>
        RSSI_TH_COUNT =
            IF foundDevices # <<>> /\ InRegistry(knownBLEAddresses, LastFound.addr)
            THEN 0
            ELSE Cardinality(AllAbove)

\* C16 witness: a known device above T_general was counted because the last
\* device reported was unknown.
C16_Witness ==
    /\ Counted
    /\ Len(foundDevices) = 2
    /\ InRegistry(knownBLEAddresses, foundDevices[1].addr)
    /\ ~InRegistry(knownBLEAddresses, foundDevices[2].addr)
    /\ RSSI_TH_COUNT = 2

\* C17: every cycle that is in its scan reaches the end of Encoding and of the
\* reset, and a new scan then begins; loop() always has a next step.
C17_CycleCompletes ==
    /\ (pc = "scan") ~> (pc = "reset")
    /\ (pc = "reset") ~> (pc = "clear")
    /\ (pc = "clear") ~> (pc = "scan" /\ foundDevices = <<>>)
    /\ [](ENABLED <<Loop>>_vars)

\* C17 witness: a cycle with a full scan has gone through counting, the
\* indicator with 15 green pulses, Encoding and the reset.
C17_Witness ==
    /\ pc = "clear"
    /\ Len(foundDevices) = MaxDevices
    /\ greenPulses = SmallMax
    /\ RSSI_TH_COUNT = 0
    /\ message = Footstep

\* C18: DEVICE_SMALL_NUM and DEVICE_LARGE_NUM are never both true, and right
\* after the classification of a cycle with generalCount 0 both are false.
C18_CategoryExclusive ==
    /\ ~(DEVICE_SMALL_NUM /\ DEVICE_LARGE_NUM)
    /\ (pc = "notify" /\ RSSI_TH_COUNT = 0) =>
          (DEVICE_SMALL_NUM = FALSE /\ DEVICE_LARGE_NUM = FALSE)

\* C18 witness: a cycle classified small follows a cycle that was classified
\* large and published Vibrate.
C18_Witness ==
    /\ pc = "notify"
    /\ DEVICE_SMALL_NUM = TRUE
    /\ DEVICE_LARGE_NUM = FALSE
    /\ message = Vibrate
    /\ wire = Vibrate

\* C19: a cycle whose final generalCount is in 1..4 publishes Footstep exactly
\* when the latest earlier cycle with a count outside 1..4 had a count in
\* 5..15, and Vibrate otherwise, also when there is no such earlier cycle.
C19_SparseFollowsPriorCategory ==
    (Encoded /\ RSSI_TH_COUNT \in 1..(SmallMin - 1)) =>
        message = (IF priorCategory = "Small" THEN Footstep ELSE Vibrate)

\* C19 witness: a cycle with a count in 1..4 has published Footstep after a
\* small cycle.
C19_Witness ==
    /\ Encoded
    /\ RSSI_TH_COUNT \in 1..(SmallMin - 1)
    /\ priorCategory = "Small"
    /\ message = Footstep

====
